---- MODULE Spec2Model ----
(***************************************************************************)
(* Event Hubs partition load balancers (partitionLoadBalancer.ts):         *)
(* GreedyPartitionLoadBalancer and FairPartitionLoadBalancer.              *)
(*                                                                         *)
(* A Map<string, PartitionOwnership> is a sequence of ownership records in *)
(* insertion order with pairwise distinct partitionId; a string[] is a     *)
(* sequence.  Partition ids and owner ids are small integers.              *)
(***************************************************************************)
EXTENDS Integers, Sequences, FiniteSets, TLC

VARIABLES
    ledger,       \* partitionOwnershipMap handed to loadBalance
    candidates,   \* partitionsToAdd handed to loadBalance
    now,          \* new Date().getTime()
    balancer,     \* class of the balancer that made the latest call
    caller,       \* _ownerId of the balancer that made the latest call
    watched,      \* GreedyPartitionLoadBalancer.partitionsToClaim
    result,       \* outcome of the latest loadBalance call
    rounds,       \* completed rounds of the processors
    called,       \* processors that have called in the current round
    pending,      \* per processor, the claim it has read for and not yet resolved
    client,       \* EventHubClient: its ConnectionContext, the position of close()
    input,        \* arguments of the latest call, before and after it
    credential    \* EnvironmentCredential: _credential and the tracing spans

vars == <<ledger, candidates, now, balancer, caller, watched, result, rounds, called,
          pending, client, input, credential>>

----------------------------------------------------------------------------
(* Bounds *)

NumPids == 3                 \* partition ids 0 .. NumPids-1
NumOwners == 2               \* owner ids 1 .. NumOwners
MaxLedger == 2               \* records in an input ledger
StartTime == 3               \* clock value of the calls
InactiveTimeLimitInMS == 2   \* constructor argument inactiveTimeLimitInMS
GreedyMaxLedger == 1         \* records in an input ledger of a Greedy call
GreedyMaxCandidates == 3     \* length of the candidate list of a Greedy call
NumPartitions == 4           \* partitions of the Event Hub of the processors, at most
HeartbeatPartitions == 2     \* partitions of the Event Hub of the renewing processors
MaxTicks == 3                \* clock ticks after StartTime
ViewMaxLedger == 1           \* records in an input ledger of SpecView
StealPartitions == 4         \* partitions of the Event Hub of SpecSteal
RecoverPartitions == 5       \* partitions of the Event Hub of SpecRecover
MaxSenders == 1              \* entries of ConnectionContext.senders
MaxReceivers == 1            \* entries of ConnectionContext.receivers
MaxCloseCalls == 1           \* calls of EventHubClient.close
MaxClientCalls == 2          \* calls of the other operations of EventHubClient
TimeoutSpan == 30            \* timeouts tried on each side of the default
MaxRemainingInMs == 20010    \* longest lock time left that is tried
MaxTokenCalls == 2           \* calls of EnvironmentCredential.getToken
GreedyPartitions == 2        \* partitions of the Event Hub of SpecGreedy
CollidePartitions == 2       \* partitions of the Event Hub of the colliding processors
MaxETag == 3                 \* version token of a record, at most

Pids == 0 .. (NumPids - 1)
Owners == 1 .. NumOwners

NoOwner == 0        \* ownerId that is "" or missing (falsy)
Undefined == 0 - 1  \* the value undefined as an array element
NoTime == 0         \* lastModifiedTimeInMS that is 0 (falsy)
NumberMinValue == 0 \* Number.MIN_VALUE: length > 5e-324 iff length > 0

----------------------------------------------------------------------------
(* Map helpers *)

MapHas(map, id) == \E i \in DOMAIN map : map[i].partitionId = id

MapKeys(map) == {map[i].partitionId : i \in DOMAIN map}

\* Map.prototype.set: an existing key keeps its position, a new key is appended
MapSet(map, po) ==
    IF MapHas(map, po.partitionId)
    THEN [i \in DOMAIN map |->
            IF map[i].partitionId = po.partitionId THEN po ELSE map[i]]
    ELSE Append(map, po)

Returned(list) == [kind |-> "return", value |-> list]
Thrown == [kind |-> "throw", value |-> <<>>]
NoResult == [kind |-> "none", value |-> <<>>]

----------------------------------------------------------------------------
(* GreedyPartitionLoadBalancer *)

NoWatched == [given |-> FALSE, ids |-> {}]

\* constructor: partitionIds && new Set(partitionIds)
GreedyConstructor(given, partitionIds) ==
    IF given THEN [given |-> TRUE, ids |-> partitionIds] ELSE NoWatched

\* variant: the claimed partitions are removed from the unfiltered list
GreedyLoadBalance_Unfiltered(partitionsToClaim, partitionOwnershipMap, partitionsToAdd) ==
    [result |-> Returned(SelectSeq(partitionsToAdd,
                                   LAMBDA id : ~MapHas(partitionOwnershipMap, id))),
     partitionOwnershipMap |-> partitionOwnershipMap,
     partitionsToAdd |-> partitionsToAdd,
     partitionsToClaim |-> partitionsToClaim]

\* variant: the instance forgets the watched partitions it has handed out
GreedyLoadBalance_Consuming(partitionsToClaim, partitionOwnershipMap, partitionsToAdd) ==
    LET potential1 ==
            IF partitionsToClaim.given
            THEN SelectSeq(partitionsToAdd, LAMBDA part : part \in partitionsToClaim.ids)
            ELSE partitionsToAdd
        potential2 ==
            SelectSeq(potential1, LAMBDA id : ~MapHas(partitionOwnershipMap, id))
    IN  [result |-> Returned(potential2),
         partitionOwnershipMap |-> partitionOwnershipMap,
         partitionsToAdd |-> partitionsToAdd,
         partitionsToClaim |->
             [partitionsToClaim EXCEPT
                 !.ids = @ \ {potential2[k] : k \in DOMAIN potential2}]]

\* variant: the partitions that are already claimed are not removed
GreedyLoadBalance_KeepClaimed(partitionsToClaim, partitionOwnershipMap, partitionsToAdd) ==
    [result |-> Returned(IF partitionsToClaim.given
                         THEN SelectSeq(partitionsToAdd,
                                        LAMBDA part : part \in partitionsToClaim.ids)
                         ELSE partitionsToAdd),
     partitionOwnershipMap |-> partitionOwnershipMap,
     partitionsToAdd |-> partitionsToAdd,
     partitionsToClaim |-> partitionsToClaim]

\* the result with the arguments and the field partitionsToClaim after the call
GreedyLoadBalance(partitionsToClaim, partitionOwnershipMap, partitionsToAdd) ==
    LET potential1 ==
            IF partitionsToClaim.given
            THEN SelectSeq(partitionsToAdd, LAMBDA part : part \in partitionsToClaim.ids)
            ELSE partitionsToAdd
        potential2 ==
            SelectSeq(potential1, LAMBDA id : ~MapHas(partitionOwnershipMap, id))
    IN  [result |-> Returned(potential2),
         partitionOwnershipMap |-> partitionOwnershipMap,
         partitionsToAdd |-> partitionsToAdd,
         partitionsToClaim |-> partitionsToClaim]

----------------------------------------------------------------------------
(* FairPartitionLoadBalancer *)

\* variant: a record whose age equals the limit still counts as active
IsActive_AgeInclusive(partitionOwnership, time, limit) ==
    /\ partitionOwnership.lastModifiedTimeInMS # NoTime
    /\ partitionOwnership.lastModifiedTimeInMS # Undefined
    /\ time - partitionOwnership.lastModifiedTimeInMS <= limit
    /\ partitionOwnership.ownerId # NoOwner

\* variant: the age of the record is not looked at
IsActive_AnyAge(partitionOwnership, time, limit) ==
    /\ partitionOwnership.lastModifiedTimeInMS # NoTime
    /\ partitionOwnership.lastModifiedTimeInMS # Undefined
    /\ partitionOwnership.ownerId # NoOwner

\* variant: the ownerId of the record is not looked at
IsActive_AnyOwner(partitionOwnership, time, limit) ==
    /\ partitionOwnership.lastModifiedTimeInMS # NoTime
    /\ partitionOwnership.lastModifiedTimeInMS # Undefined
    /\ time - partitionOwnership.lastModifiedTimeInMS < limit

\* the condition of the forEach; a timestamp that is 0 or missing is falsy
IsActive(partitionOwnership, time, limit) ==
    /\ partitionOwnership.lastModifiedTimeInMS # NoTime
    /\ partitionOwnership.lastModifiedTimeInMS # Undefined
    /\ time - partitionOwnership.lastModifiedTimeInMS < limit
    /\ partitionOwnership.ownerId # NoOwner

\* variant: the inactive records are deleted from the argument
removeInactivePartitionOwnerships_InPlace(partitionOwnershipMap, time, limit) ==
    [result |-> SelectSeq(partitionOwnershipMap, LAMBDA po : IsActive(po, time, limit)),
     partitionOwnershipMap |->
         SelectSeq(partitionOwnershipMap, LAMBDA po : IsActive(po, time, limit))]

\* returns a new map; the argument is only iterated
removeInactivePartitionOwnerships(partitionOwnershipMap, time, limit) ==
    [result |-> SelectSeq(partitionOwnershipMap, LAMBDA po : IsActive(po, time, limit)),
     partitionOwnershipMap |-> partitionOwnershipMap]

OwnerIndex(ownerPartitionMap, id) ==
    CHOOSE i \in DOMAIN ownerPartitionMap : ownerPartitionMap[i].ownerId = id

OwnerMapHas(ownerPartitionMap, id) ==
    \E i \in DOMAIN ownerPartitionMap : ownerPartitionMap[i].ownerId = id

\* ownerPartitionMap.get(id)
OwnerMapGet(ownerPartitionMap, id) ==
    ownerPartitionMap[OwnerIndex(ownerPartitionMap, id)].list

RECURSIVE GroupByOwner(_, _)
\* the loop over activePartitionOwnershipMap.values() that fills ownerPartitionMap
GroupByOwner(active, acc) ==
    IF active = <<>> THEN acc
    ELSE LET po == Head(active)
             next == IF OwnerMapHas(acc, po.ownerId)
                     THEN [i \in DOMAIN acc |->
                             IF acc[i].ownerId = po.ownerId
                             THEN [acc[i] EXCEPT !.list = Append(@, po)]
                             ELSE acc[i]]
                     ELSE Append(acc, [ownerId |-> po.ownerId, list |-> <<po>>])
         IN  GroupByOwner(Tail(active), next)

\* variant: the current event processor is not added to the map
BuildOwnerPartitionMap_NoSelf(active, self) == GroupByOwner(active, <<>>)

\* ownerPartitionMap after "add the current event processor to the map"
BuildOwnerPartitionMap(active, self) ==
    LET grouped == GroupByOwner(active, <<>>)
    IN  IF OwnerMapHas(grouped, self)
        THEN grouped
        ELSE Append(grouped, [ownerId |-> self, list |-> <<>>])

\* variant: a later list of the same length replaces the selected one
RECURSIVE MaxListFrom_LastMax(_, _, _)
MaxListFrom_LastMax(ownerPartitionMap, maxList, maxOwned) ==
    IF ownerPartitionMap = <<>> THEN maxList
    ELSE LET ownershipList == Head(ownerPartitionMap).list
         IN  IF Len(ownershipList) >= maxOwned /\ Len(ownershipList) > 0
             THEN MaxListFrom_LastMax(Tail(ownerPartitionMap), ownershipList,
                                      Len(ownershipList))
             ELSE MaxListFrom_LastMax(Tail(ownerPartitionMap), maxList, maxOwned)

\* list selected by the forEach of _findPartitionToSteal
RECURSIVE MaxListFrom(_, _, _)
MaxListFrom(ownerPartitionMap, maxList, maxOwned) ==
    IF ownerPartitionMap = <<>> THEN maxList
    ELSE LET ownershipList == Head(ownerPartitionMap).list
         IN  IF Len(ownershipList) > maxOwned
             THEN MaxListFrom(Tail(ownerPartitionMap), ownershipList, Len(ownershipList))
             ELSE MaxListFrom(Tail(ownerPartitionMap), maxList, maxOwned)

\* variant: the scan starts from a maximum no list length exceeds
findPartitionToSteal_MaxValue(ownerPartitionMap) ==
    LET maxList == MaxListFrom(ownerPartitionMap, <<>>, NumPids + NumPartitions + MaxLedger)
    IN  IF maxList = <<>>
        THEN {Thrown}
        ELSE {Returned(<<maxList[k].partitionId>>) : k \in DOMAIN maxList}

findPartitionToSteal(ownerPartitionMap) ==
    LET maxList == MaxListFrom(ownerPartitionMap, <<>>, NumberMinValue)
    IN  IF maxList = <<>>
        THEN {Thrown}
        ELSE {Returned(<<maxList[k].partitionId>>) : k \in DOMAIN maxList}

RECURSIVE SumOwned(_)
SumOwned(ownerPartitionMap) ==
    IF ownerPartitionMap = <<>> THEN 0
    ELSE Len(Head(ownerPartitionMap).list) + SumOwned(Tail(ownerPartitionMap))

\* variant: the comparison with the minimum is turned around
shouldOwnMorePartitions_Flipped(self, minPartitionsPerEventProcessor, partitionIds, ownerPartitionMap) ==
    LET numberOfPartitionsOwned == Len(OwnerMapGet(ownerPartitionMap, self))
        sumOfPartitionsOwnedByAnyProcessor == SumOwned(ownerPartitionMap)
    IN  \/ numberOfPartitionsOwned > minPartitionsPerEventProcessor
        \/ /\ sumOfPartitionsOwnedByAnyProcessor < Len(partitionIds)
           /\ numberOfPartitionsOwned < minPartitionsPerEventProcessor + 1

\* variant: the sum of the owned partitions is not compared with the total
shouldOwnMorePartitions_NoSum(self, minPartitionsPerEventProcessor, partitionIds, ownerPartitionMap) ==
    LET numberOfPartitionsOwned == Len(OwnerMapGet(ownerPartitionMap, self))
    IN  \/ numberOfPartitionsOwned < minPartitionsPerEventProcessor
        \/ numberOfPartitionsOwned < minPartitionsPerEventProcessor + 1

shouldOwnMorePartitions(self, minPartitionsPerEventProcessor, partitionIds, ownerPartitionMap) ==
    LET numberOfPartitionsOwned == Len(OwnerMapGet(ownerPartitionMap, self))
        sumOfPartitionsOwnedByAnyProcessor == SumOwned(ownerPartitionMap)
    IN  \/ numberOfPartitionsOwned < minPartitionsPerEventProcessor
        \/ /\ sumOfPartitionsOwnedByAnyProcessor < Len(partitionIds)
           /\ numberOfPartitionsOwned < minPartitionsPerEventProcessor + 1

isLoadBalanced(minPartitionsPerEventProcessor, numberOfEventProcessorsWithAdditionalPartition, ownerPartitionMap) ==
    /\ \A i \in DOMAIN ownerPartitionMap :
          /\ Len(ownerPartitionMap[i].list) >= minPartitionsPerEventProcessor
          /\ Len(ownerPartitionMap[i].list) <= minPartitionsPerEventProcessor + 1
    /\ Cardinality({i \in DOMAIN ownerPartitionMap :
                      Len(ownerPartitionMap[i].list) = minPartitionsPerEventProcessor + 1})
          = numberOfEventProcessorsWithAdditionalPartition

\* variant: the quotient is rounded up
MinPartitionsPerEventProcessor_Ceil(partitionsToAdd, ownerPartitionMap) ==
    (Len(partitionsToAdd) + Len(ownerPartitionMap) - 1) \div Len(ownerPartitionMap)

\* Math.floor(partitionsToAdd.length / ownerPartitionMap.size)
MinPartitionsPerEventProcessor(partitionsToAdd, ownerPartitionMap) ==
    Len(partitionsToAdd) \div Len(ownerPartitionMap)

\* partitionsToAdd.length % ownerPartitionMap.size
NumberWithAdditionalPartition(partitionsToAdd, ownerPartitionMap) ==
    Len(partitionsToAdd) % Len(ownerPartitionMap)

\* variant: the random index never reaches the last candidate
BootstrapChoices_ShortRange(partitionsToAdd) ==
    IF partitionsToAdd = <<>>
    THEN {Returned(<<Undefined>>)}
    ELSE {Returned(<<partitionsToAdd[k]>>) :
            k \in 1 .. (IF Len(partitionsToAdd) > 1 THEN Len(partitionsToAdd) - 1 ELSE 1)}

\* partitionsToAdd[Math.floor(Math.random() * partitionsToAdd.length)]
BootstrapChoices(partitionsToAdd) ==
    IF partitionsToAdd = <<>>
    THEN {Returned(<<Undefined>>)}
    ELSE {Returned(<<partitionsToAdd[k]>>) : k \in DOMAIN partitionsToAdd}

UnOwnedPartitionIds(active, partitionsToAdd) ==
    SelectSeq(partitionsToAdd, LAMBDA partitionId : ~MapHas(active, partitionId))

\* variant: every unclaimed partition is returned at once
AcquireChoices_AllUnowned(active, partitionsToAdd, ownerPartitionMap) ==
    LET unOwnedPartitionIds == UnOwnedPartitionIds(active, partitionsToAdd)
    IN  IF Len(unOwnedPartitionIds) = 0
        THEN findPartitionToSteal(ownerPartitionMap)
        ELSE {Returned(unOwnedPartitionIds)}

\* variant: a partition is stolen whenever some owner holds one
AcquireChoices_StealFirst(active, partitionsToAdd, ownerPartitionMap) ==
    LET unOwnedPartitionIds == UnOwnedPartitionIds(active, partitionsToAdd)
    IN  IF Len(unOwnedPartitionIds) = 0 \/ Len(active) > 0
        THEN findPartitionToSteal(ownerPartitionMap)
        ELSE {Returned(<<unOwnedPartitionIds[k]>>) : k \in DOMAIN unOwnedPartitionIds}

\* the claim/steal step of loadBalance
AcquireChoices(active, partitionsToAdd, ownerPartitionMap) ==
    LET unOwnedPartitionIds == UnOwnedPartitionIds(active, partitionsToAdd)
    IN  IF Len(unOwnedPartitionIds) = 0
        THEN findPartitionToSteal(ownerPartitionMap)
        ELSE {Returned(<<unOwnedPartitionIds[k]>>) : k \in DOMAIN unOwnedPartitionIds}

\* the set of outcomes of loadBalance of the balancer with _ownerId self
FairLoadBalance(self, limit, partitionOwnershipMap, partitionsToAdd, time) ==
    LET active == removeInactivePartitionOwnerships(partitionOwnershipMap, time, limit).result
        ownerPartitionMap == BuildOwnerPartitionMap(active, self)
        minPer == MinPartitionsPerEventProcessor(partitionsToAdd, ownerPartitionMap)
        extra == NumberWithAdditionalPartition(partitionsToAdd, ownerPartitionMap)
    IN  IF Len(active) = 0 THEN BootstrapChoices(partitionsToAdd)
        ELSE IF isLoadBalanced(minPer, extra, ownerPartitionMap) THEN {Returned(<<>>)}
        ELSE IF ~shouldOwnMorePartitions(self, minPer, partitionsToAdd, ownerPartitionMap)
             THEN {Returned(<<>>)}
        ELSE AcquireChoices(active, partitionsToAdd, ownerPartitionMap)

----------------------------------------------------------------------------
(* Inputs of the calls *)

Ownerships(ids, owners, times) ==
    [partitionId : ids, ownerId : owners, lastModifiedTimeInMS : times]

\* all maps of at most n records drawn from recs
MapsOf(recs, n) ==
    UNION {{m \in [1 .. k -> recs] :
              \A i, j \in 1 .. k : i # j => m[i].partitionId # m[j].partitionId}
           : k \in 0 .. n}

\* all lists over ids of at most n elements
ListsOf(ids, n) == UNION {[1 .. k -> ids] : k \in 0 .. n}

\* a record whose age is the limit and a record one tick younger
InputTimes == {StartTime - InactiveTimeLimitInMS, StartTime - InactiveTimeLimitInMS + 1}

FairLedgers == MapsOf(Ownerships(Pids, Owners \cup {NoOwner}, InputTimes), MaxLedger)

\* the partition ids of an Event Hub of n partitions
PartitionIds(n) == [k \in 1 .. n |-> k - 1]

FairCandidates == {PartitionIds(n) : n \in 0 .. NumPids}

GreedyLedgers == MapsOf(Ownerships(Pids, {1}, {StartTime}), GreedyMaxLedger)

GreedyCandidates == ListsOf(Pids, GreedyMaxCandidates)

----------------------------------------------------------------------------
(* Spec: one balancer, its inputs drawn at the start, called repeatedly *)

NoClient == [op |-> "none"]
NoInput == [op |-> "none"]
NoCredential == [kind |-> "none"]

Idle == [phase |-> "idle", partitionId |-> Undefined, seen |-> 0]

NoPending == [o \in Owners |-> Idle]

InitFair ==
    /\ balancer = "Fair"
    /\ watched = NoWatched
    /\ ledger \in FairLedgers
    /\ candidates \in FairCandidates

InitGreedy ==
    /\ balancer = "Greedy"
    /\ \E given \in BOOLEAN, ids \in SUBSET Pids :
          /\ given \/ ids = {}
          /\ watched = GreedyConstructor(given, ids)
    /\ ledger \in GreedyLedgers
    /\ candidates \in GreedyCandidates

Init ==
    /\ InitFair \/ InitGreedy
    /\ now = StartTime
    /\ caller = NoOwner
    /\ result = NoResult
    /\ rounds = 0
    /\ called = {}
    /\ pending = NoPending
    /\ client = NoClient
    /\ input = NoInput
    /\ credential = NoCredential

FairCall(self) ==
    /\ balancer = "Fair"
    /\ \E out \in FairLoadBalance(self, InactiveTimeLimitInMS, ledger, candidates, now) :
          result' = out
    /\ caller' = self
    /\ ledger' = removeInactivePartitionOwnerships(
                     ledger, now, InactiveTimeLimitInMS).partitionOwnershipMap
    /\ UNCHANGED <<candidates, now, balancer, watched, rounds, called, pending, client, input, credential>>

GreedyCall ==
    /\ balancer = "Greedy"
    /\ LET out == GreedyLoadBalance(watched, ledger, candidates)
       IN  /\ result' = out.result
           /\ ledger' = out.partitionOwnershipMap
           /\ candidates' = out.partitionsToAdd
           /\ watched' = out.partitionsToClaim
    /\ caller' = NoOwner
    /\ UNCHANGED <<now, balancer, rounds, called, pending, client, input, credential>>

Next ==
    \/ \E self \in Owners : FairCall(self)
    \/ GreedyCall

Spec == Init /\ [][Next]_vars

TypeOK ==
    /\ balancer \in {"Fair", "Greedy"}
    /\ caller \in Owners \cup {NoOwner}
    /\ result.kind \in {"none", "return", "throw"}

----------------------------------------------------------------------------
(* SpecView: one Fair balancer called on ledgers whose records carry any   *)
(* timestamp from 0 to the clock value, or none, at any clock value; the   *)
(* ledger may hold in addition one record just written by owner 1          *)

ViewTimes == (0 .. StartTime) \cup {Undefined}

ViewLedgers(time) ==
    LET fresh == [partitionId |-> NumPids - 1, ownerId |-> 1,
                  lastModifiedTimeInMS |-> time]
        maps == MapsOf(Ownerships(Pids, Owners \cup {NoOwner}, ViewTimes), ViewMaxLedger)
    IN  maps \cup {Append(m, fresh) : m \in {x \in maps : ~MapHas(x, NumPids - 1)}}

InitView ==
    /\ balancer = "Fair"
    /\ watched = NoWatched
    /\ now \in 1 .. StartTime
    /\ ledger \in ViewLedgers(now)
    /\ candidates = PartitionIds(NumPids)
    /\ caller = NoOwner
    /\ result = NoResult
    /\ rounds = 0
    /\ called = {}
    /\ pending = NoPending
    /\ client = NoClient
    /\ input = NoInput
    /\ credential = NoCredential

NextView == \E self \in Owners : FairCall(self)

SpecView == InitView /\ [][NextView]_vars

----------------------------------------------------------------------------
(* SpecSteal: every partition is actively owned, by any of the owners; the *)
(* owners and one more instance call, with all the partitions as           *)
(* candidates or all but the last                                          *)

Newcomer == NumOwners + 1

StealLedgers ==
    {[i \in 1 .. StealPartitions |->
         [partitionId |-> i - 1, ownerId |-> owner[i],
          lastModifiedTimeInMS |-> StartTime]] :
       owner \in [1 .. StealPartitions -> Owners]}

InitSteal ==
    /\ balancer = "Fair"
    /\ watched = NoWatched
    /\ ledger \in StealLedgers
    /\ candidates \in {PartitionIds(StealPartitions), PartitionIds(StealPartitions - 1)}
    /\ now = StartTime
    /\ caller = NoOwner
    /\ result = NoResult
    /\ rounds = 0
    /\ called = {}
    /\ pending = NoPending
    /\ client = NoClient
    /\ input = NoInput
    /\ credential = NoCredential

NextSteal == \E self \in Owners \cup {Newcomer} : FairCall(self)

SpecSteal == InitSteal /\ [][NextSteal]_vars

----------------------------------------------------------------------------
(* The processors of one consumer group, each with its own                 *)
(* FairPartitionLoadBalancer, sharing one ownership store.  A processor    *)
(* reads the whole ledger, calls loadBalance and persists the claim in one *)
(* atomic step; records are written at the current time and never age.     *)

\* the store after the claim of self is persisted with heartbeat time
PersistClaim(store, out, self, time) ==
    IF out.kind = "return" /\ Len(out.value) = 1
    THEN MapSet(store, [partitionId |-> out.value[1], ownerId |-> self,
                        lastModifiedTimeInMS |-> time])
    ELSE store

\* one iteration of the loop of processor self
ClaimStep(self) ==
    /\ \E out \in FairLoadBalance(self, InactiveTimeLimitInMS, ledger, candidates, now) :
          /\ result' = out
          /\ ledger' = PersistClaim(
                 removeInactivePartitionOwnerships(
                     ledger, now, InactiveTimeLimitInMS).partitionOwnershipMap,
                 out, self, now)
    /\ caller' = self
    /\ UNCHANGED <<candidates, now, balancer, watched, pending, client, input, credential>>

InitProcessors ==
    /\ balancer = "Fair"
    /\ watched = NoWatched
    /\ ledger = <<>>
    /\ candidates \in {PartitionIds(n) : n \in 1 .. NumPartitions}
    /\ now = StartTime
    /\ caller = NoOwner
    /\ result = NoResult
    /\ rounds = 0
    /\ called = {}
    /\ pending = NoPending
    /\ client = NoClient
    /\ input = NoInput
    /\ credential = NoCredential

ProcessorCall(self) ==
    /\ ClaimStep(self)
    /\ UNCHANGED <<rounds, called, client, input, credential>>

NextProcessors == \E self \in Owners : ProcessorCall(self)

SpecProcessors == InitProcessors /\ [][NextProcessors]_vars

----------------------------------------------------------------------------
(* SpecConverge: three processors and five partitions, rounds counted.     *)
(* A round is complete when every processor has called at least once in it *)

ConvergeOwners == {1, 2, 3}

ConvergePartitions == <<0, 1, 2, 3, 4>>

InitConverge ==
    /\ balancer = "Fair"
    /\ watched = NoWatched
    /\ ledger = <<>>
    /\ candidates = ConvergePartitions
    /\ now = StartTime
    /\ caller = NoOwner
    /\ result = NoResult
    /\ rounds = 0
    /\ called = {}
    /\ pending = NoPending
    /\ client = NoClient
    /\ input = NoInput
    /\ credential = NoCredential

CountRound(self) ==
    IF rounds >= Len(candidates)
    THEN UNCHANGED <<rounds, called, client, input, credential>>
    ELSE IF called \cup {self} = ConvergeOwners
         THEN rounds' = rounds + 1 /\ called' = {}
         ELSE rounds' = rounds /\ called' = called \cup {self}

RoundCall(self) ==
    /\ ClaimStep(self)
    /\ CountRound(self)

NextConverge == \E self \in ConvergeOwners : RoundCall(self)

SpecConverge == InitConverge /\ [][NextConverge]_vars

----------------------------------------------------------------------------
(* SpecHeartbeat: the processors with a clock.  A record ages as the clock *)
(* ticks; its owner may renew it at any time by writing the current time.  *)

InitHeartbeat ==
    /\ balancer = "Fair"
    /\ watched = NoWatched
    /\ ledger = <<>>
    /\ candidates = PartitionIds(HeartbeatPartitions)
    /\ now = StartTime
    /\ caller = NoOwner
    /\ result = NoResult
    /\ rounds = 0
    /\ called = {}
    /\ pending = NoPending
    /\ client = NoClient
    /\ input = NoInput
    /\ credential = NoCredential

Tick ==
    /\ now < StartTime + MaxTicks
    /\ now' = now + 1
    /\ UNCHANGED <<ledger, candidates, balancer, caller, watched, result, rounds, called,
                   pending, client, input, credential>>

\* the owner of record i persists a heartbeat for it
Heartbeat(i) ==
    /\ ledger[i].lastModifiedTimeInMS # now
    /\ ledger' = [ledger EXCEPT ![i].lastModifiedTimeInMS = now]
    /\ UNCHANGED <<candidates, now, balancer, caller, watched, result, rounds, called,
                   pending, client, input, credential>>

HeartbeatCall(self) ==
    /\ ClaimStep(self)
    /\ UNCHANGED <<rounds, called, client, input, credential>>

NextHeartbeat ==
    \/ Tick
    \/ \E i \in DOMAIN ledger : Heartbeat(i)
    \/ \E self \in Owners : HeartbeatCall(self)

SpecHeartbeat == InitHeartbeat /\ [][NextHeartbeat]_vars

----------------------------------------------------------------------------
(* SpecCollide: the processors with the read and the write of a claim as   *)
(* two steps.  A record carries the version token of the store (eTag); a   *)
(* write names the token that was read and is rejected when the stored     *)
(* record has another one.                                                 *)

\* the version token of the stored record of id, 0 when there is none
StoredETag(store, id) ==
    IF MapHas(store, id)
    THEN (CHOOSE po \in {store[i] : i \in DOMAIN store} : po.partitionId = id).eTag
    ELSE 0

\* variant: the store writes without comparing the version token
PersistIfUnchanged_Blind(store, self, id, seen, time) ==
    [accepted |-> TRUE,
     store |-> MapSet(store, [partitionId |-> id, ownerId |-> self,
                              lastModifiedTimeInMS |-> time,
                              eTag |-> StoredETag(store, id) + 1])]

\* the optimistic-concurrency write of the ownership store
PersistIfUnchanged(store, self, id, seen, time) ==
    IF StoredETag(store, id) = seen
    THEN [accepted |-> TRUE,
          store |-> MapSet(store, [partitionId |-> id, ownerId |-> self,
                                   lastModifiedTimeInMS |-> time, eTag |-> seen + 1])]
    ELSE [accepted |-> FALSE, store |-> store]

InitCollide ==
    /\ balancer = "Fair"
    /\ watched = NoWatched
    /\ ledger = <<>>
    /\ candidates = PartitionIds(CollidePartitions)
    /\ now = StartTime
    /\ caller = NoOwner
    /\ result = NoResult
    /\ rounds = 0
    /\ called = {}
    /\ pending = NoPending
    /\ client = NoClient
    /\ input = NoInput
    /\ credential = NoCredential

\* processor self reads the ledger and calls loadBalance on the snapshot
ReadAndBalance(self) ==
    /\ pending[self].phase # "proposed"
    /\ \E out \in FairLoadBalance(self, InactiveTimeLimitInMS, ledger, candidates, now) :
          /\ result' = out
          /\ pending' = [pending EXCEPT ![self] =
                 IF out.kind = "return" /\ Len(out.value) = 1
                 THEN [phase |-> "proposed", partitionId |-> out.value[1],
                       seen |-> StoredETag(ledger, out.value[1])]
                 ELSE Idle]
    /\ caller' = self
    /\ ledger' = removeInactivePartitionOwnerships(
                     ledger, now, InactiveTimeLimitInMS).partitionOwnershipMap
    /\ UNCHANGED <<candidates, now, balancer, watched, rounds, called, client, input, credential>>

\* processor self writes its claim; a rejected claim is discarded
WriteClaim(self) ==
    /\ pending[self].phase = "proposed"
    /\ pending[self].seen < MaxETag
    /\ LET written == PersistIfUnchanged(ledger, self, pending[self].partitionId,
                                         pending[self].seen, now)
       IN  /\ ledger' = written.store
           /\ pending' = [pending EXCEPT ![self].phase =
                             IF written.accepted THEN "persisted" ELSE "discarded"]
    /\ UNCHANGED <<candidates, now, balancer, caller, watched, result, rounds, called, client, input, credential>>

NextCollide ==
    \/ \E self \in Owners : ReadAndBalance(self)
    \/ \E self \in Owners : WriteClaim(self)

SpecCollide == InitCollide /\ [][NextCollide]_vars

----------------------------------------------------------------------------
(* SpecRecover: two processors.  Owner 1 has stopped; its records are no   *)
(* longer renewed and age out.  Owner 2 survives: it calls loadBalance,    *)
(* persists the claim and renews its records before the clock can make one *)
(* of them inactive.                                                       *)

StoppedOwner == 1

Survivors == {2}

RecoverOwners == {StoppedOwner} \cup Survivors

\* every partition has a record: the first partitions of the stopped owner,
\* written at the start or one tick earlier, the others of the survivors in
\* turn, just renewed
RecoverLedgers ==
    {[i \in 1 .. RecoverPartitions |->
         [partitionId |-> i - 1,
          ownerId |-> owner[i],
          lastModifiedTimeInMS |->
              IF owner[i] = StoppedOwner THEN time[i] ELSE StartTime]] :
       owner \in {f \in [1 .. RecoverPartitions -> RecoverOwners] :
                    \A i, j \in 1 .. RecoverPartitions : i < j => f[i] <= f[j]},
       time \in [1 .. RecoverPartitions -> {StartTime - 1, StartTime}]}

InitRecover ==
    /\ balancer = "Fair"
    /\ watched = NoWatched
    /\ ledger \in RecoverLedgers
    /\ candidates = PartitionIds(RecoverPartitions)
    /\ now = StartTime
    /\ caller = NoOwner
    /\ result = NoResult
    /\ rounds = 0
    /\ called = {}
    /\ pending = NoPending
    /\ client = NoClient
    /\ input = NoInput
    /\ credential = NoCredential

\* the clock ticks when no record of a survivor would become inactive
TickRecover ==
    /\ now < StartTime + MaxTicks
    /\ \A i \in DOMAIN ledger :
          ledger[i].ownerId \in Survivors =>
              now + 1 - ledger[i].lastModifiedTimeInMS < InactiveTimeLimitInMS
    /\ now' = now + 1
    /\ UNCHANGED <<ledger, candidates, balancer, caller, watched, result, rounds, called,
                   pending, client, input, credential>>

\* survivor self persists a heartbeat for each of its records
RenewOwned(self) ==
    /\ \E i \in DOMAIN ledger :
          ledger[i].ownerId = self /\ ledger[i].lastModifiedTimeInMS # now
    /\ ledger' = [i \in DOMAIN ledger |->
                    IF ledger[i].ownerId = self
                    THEN [ledger[i] EXCEPT !.lastModifiedTimeInMS = now]
                    ELSE ledger[i]]
    /\ UNCHANGED <<candidates, now, balancer, caller, watched, result, rounds, called,
                   pending, client, input, credential>>

RecoverCall(self) ==
    /\ ClaimStep(self)
    /\ UNCHANGED <<rounds, called, client, input, credential>>

NextRecover ==
    \/ TickRecover
    \/ \E self \in Survivors : RenewOwned(self)
    \/ \E self \in Survivors : RecoverCall(self)

\* a call of self would change nothing: it was the latest call, it returned
\* the empty list and would return it again
Quiet(self) ==
    /\ caller = self
    /\ result = Returned(<<>>)
    /\ FairLoadBalance(self, InactiveTimeLimitInMS, ledger, candidates, now)
          = {Returned(<<>>)}

\* weak fairness of the loop of self, WF_vars(RecoverCall(self)), with the
\* states in which the call is not enabled written out as Quiet(self)
CallsFairly(self) == []<><<RecoverCall(self)>>_vars \/ []<>Quiet(self)

SpecRecover ==
    /\ InitRecover
    /\ [][NextRecover]_vars
    /\ WF_vars(TickRecover)
    /\ \A self \in Survivors : WF_vars(RenewOwned(self))
    /\ \A self \in Survivors : CallsFairly(self)

----------------------------------------------------------------------------
(* SpecGreedy: processors with Greedy balancers of one configuration and a *)
(* clock.  A processor persists every partition its call returns; records  *)
(* are never renewed or deleted.  The store may hold an old record.        *)

RECURSIVE PersistAll(_, _, _, _)
\* the store after every partition of ids is persisted for self
PersistAll(store, ids, self, time) ==
    IF ids = <<>> THEN store
    ELSE PersistAll(MapSet(store, [partitionId |-> Head(ids), ownerId |-> self,
                                   lastModifiedTimeInMS |-> time]),
                    Tail(ids), self, time)

InitGreedyLoop ==
    /\ balancer = "Greedy"
    /\ \E given \in BOOLEAN, ids \in SUBSET (0 .. (GreedyPartitions - 1)) :
          /\ given \/ ids = {}
          /\ watched = GreedyConstructor(given, ids)
    /\ ledger \in MapsOf(Ownerships(0 .. (GreedyPartitions - 1), {1},
                                     {StartTime - InactiveTimeLimitInMS}), 1)
    /\ candidates = PartitionIds(GreedyPartitions)
    /\ now = StartTime
    /\ caller = NoOwner
    /\ result = NoResult
    /\ rounds = 0
    /\ called = {}
    /\ pending = NoPending
    /\ client = NoClient
    /\ input = NoInput
    /\ credential = NoCredential

\* one iteration of the loop of processor self
GreedyClaim(self) ==
    /\ LET out == GreedyLoadBalance(watched, ledger, candidates)
       IN  /\ result' = out.result
           /\ ledger' = PersistAll(out.partitionOwnershipMap, out.result.value, self, now)
           /\ candidates' = out.partitionsToAdd
           /\ watched' = out.partitionsToClaim
    /\ caller' = self
    /\ UNCHANGED <<now, balancer, rounds, called, pending, client, input, credential>>

NextGreedyLoop ==
    \/ Tick
    \/ \E self \in Owners : GreedyClaim(self)

SpecGreedy == InitGreedyLoop /\ [][NextGreedyLoop]_vars

----------------------------------------------------------------------------
(* EventHubClient: close() and the operations that need the connection *)

ThrownError(name) == [kind |-> "throw", value |-> name]
Resolved(value) == [kind |-> "return", value |-> value]

Step(kind, name) == [kind |-> kind, name |-> name]

\* variant: the receivers are closed before the senders
CloseSteps_ReceiversFirst(context) ==
    [i \in DOMAIN context.receivers |-> Step("receiver", i)]
    \o [i \in DOMAIN context.senders |-> Step("sender", i)]
    \o <<Step("cbsSession", 1), Step("managementSession", 1), Step("connection", 1)>>

\* the awaits of close() in the order of the code, with the names of
\* Object.keys in insertion order
CloseSteps(context) ==
    [i \in DOMAIN context.senders |-> Step("sender", i)]
    \o [i \in DOMAIN context.receivers |-> Step("receiver", i)]
    \o <<Step("cbsSession", 1), Step("managementSession", 1), Step("connection", 1)>>

\* the context after the awaited close of step has resolved
Closed(context, step) ==
    CASE step.kind = "sender" ->
             [context EXCEPT !.senders[step.name] = FALSE]
      [] step.kind = "receiver" ->
             [context EXCEPT !.receivers[step.name] = FALSE]
      [] step.kind = "cbsSession" -> [context EXCEPT !.cbsOpen = FALSE]
      [] step.kind = "managementSession" -> [context EXCEPT !.managementOpen = FALSE]
      [] step.kind = "connection" -> [context EXCEPT !.connectionOpen = FALSE]

\* throwErrorIfConnectionClosed(context) throws
throwErrorIfConnectionClosed(context) == context.wasConnectionCloseCalled

\* throwTypeErrorIfParameterMissing(..., parameterValue) throws
throwTypeErrorIfParameterMissing(given) == ~given

\* the options object after "if (!options.retryOptions) options.retryOptions = ..."
DefaultRetryOptions(context, options) ==
    IF options.retryOptions = "undefined"
    THEN [options EXCEPT !.retryOptions =
              IF context.clientRetryOptions THEN "client" ELSE "undefined"]
    ELSE options

\* variant: the producer is created without the check of the connection
createProducer_Unchecked(context, options) ==
    [context |-> [context EXCEPT !.producers = @ + 1],
     options |-> DefaultRetryOptions(context, options),
     result |-> Resolved("EventHubProducer")]

createProducer(context, options) ==
    LET defaulted == DefaultRetryOptions(context, options)
    IN  IF throwErrorIfConnectionClosed(context)
        THEN [context |-> context, options |-> defaulted, result |-> ThrownError("Error")]
        ELSE [context |-> [context EXCEPT !.producers = @ + 1],
              options |-> defaulted,
              result |-> Resolved("EventHubProducer")]

createConsumer(context, consumerGroup, partitionId, eventPosition, options) ==
    LET defaulted == DefaultRetryOptions(context, options)
    IN  IF throwErrorIfConnectionClosed(context)
        THEN [context |-> context, options |-> defaulted, result |-> ThrownError("Error")]
        ELSE IF \/ throwTypeErrorIfParameterMissing(consumerGroup)
                \/ throwTypeErrorIfParameterMissing(partitionId)
                \/ throwTypeErrorIfParameterMissing(eventPosition)
        THEN [context |-> context, options |-> defaulted,
              result |-> ThrownError("TypeError")]
        ELSE [context |-> [context EXCEPT !.consumers = @ + 1],
              options |-> defaulted,
              result |-> Resolved("EventHubConsumer")]

\* a management request inside a client span; ok is the outcome of the request
SpannedRequest(context, ok, value) ==
    [context |-> [context EXCEPT !.spansStarted = @ + 1, !.requests = @ + 1,
                                 !.spansEnded = @ + 1],
     result |-> IF ok THEN Resolved(value) ELSE ThrownError("Error")]

getProperties(context, ok) ==
    IF throwErrorIfConnectionClosed(context)
    THEN [context |-> context, result |-> ThrownError("Error")]
    ELSE SpannedRequest(context, ok, "EventHubProperties")

getPartitionIds(context, ok) ==
    IF throwErrorIfConnectionClosed(context)
    THEN [context |-> context, result |-> ThrownError("Error")]
    ELSE LET started == [context EXCEPT !.spansStarted = @ + 1]
             inner == getProperties(started, ok)
         IN  [context |-> [inner.context EXCEPT !.spansEnded = @ + 1],
              result |-> IF inner.result.kind = "return"
                         THEN Resolved("partitionIds") ELSE inner.result]

getPartitionProperties(context, partitionId, ok) ==
    IF throwErrorIfConnectionClosed(context)
    THEN [context |-> context, result |-> ThrownError("Error")]
    ELSE IF throwTypeErrorIfParameterMissing(partitionId)
    THEN [context |-> context, result |-> ThrownError("TypeError")]
    ELSE SpannedRequest(context, ok, "PartitionProperties")

\* the options argument of createProducer and createConsumer
OptionsArgs ==
    {[passed |-> FALSE, retryOptions |-> "undefined"]}
    \cup {[passed |-> TRUE, retryOptions |-> r] : r \in {"undefined", "caller"}}

Links(n) == [i \in 1 .. n |-> TRUE]

InitClient ==
    /\ \E open, retry \in BOOLEAN, s \in 0 .. MaxSenders, r \in 0 .. MaxReceivers :
          client = [op |-> "none",
                    connectionOpen |-> open,
                    wasConnectionCloseCalled |-> FALSE,
                    senders |-> Links(s),
                    receivers |-> Links(r),
                    cbsOpen |-> open,
                    managementOpen |-> open,
                    clientRetryOptions |-> retry,
                    todo |-> <<>>,
                    closeLog |-> <<>>,
                    closePromise |-> "none",
                    closeCalls |-> 0,
                    calls |-> 0,
                    producers |-> 0,
                    consumers |-> 0,
                    requests |-> 0,
                    spansStarted |-> 0,
                    spansEnded |-> 0]
    /\ input = NoInput
    /\ credential = NoCredential
    /\ ledger = <<>>
    /\ candidates = <<>>
    /\ now = StartTime
    /\ balancer = "none"
    /\ caller = NoOwner
    /\ watched = NoWatched
    /\ result = NoResult
    /\ rounds = 0
    /\ called = {}
    /\ pending = NoPending

NotClient ==
    <<ledger, candidates, now, balancer, caller, watched, rounds, called, pending,
      credential>>

\* close() up to its first await
CloseCall ==
    /\ client.todo = <<>>
    /\ client.closeCalls < MaxCloseCalls
    /\ IF client.connectionOpen
       THEN client' = [client EXCEPT !.op = "close", !.closeCalls = @ + 1,
                                     !.todo = CloseSteps(client),
                                     !.closeLog = <<>>,
                                     !.closePromise = "pending"]
       ELSE client' = [client EXCEPT !.op = "close", !.closeCalls = @ + 1,
                                     !.closePromise = "resolved"]
    /\ input' = [op |-> "close"]
    /\ UNCHANGED result
    /\ UNCHANGED NotClient

\* the awaited close of the next step resolves; after the last one the flag is set
CloseStepResolves ==
    /\ client.todo # <<>>
    /\ LET step == Head(client.todo)
           closed == [Closed(client, step) EXCEPT !.todo = Tail(client.todo),
                                                  !.closeLog = Append(@, step)]
       IN  IF Tail(client.todo) = <<>>
           THEN client' = [closed EXCEPT !.wasConnectionCloseCalled = TRUE,
                                         !.closePromise = "resolved"]
           ELSE client' = closed
    /\ UNCHANGED <<input, result>>
    /\ UNCHANGED NotClient

\* the awaited close of the next step rejects; close() rethrows
CloseStepRejects ==
    /\ client.todo # <<>>
    /\ client' = [client EXCEPT !.todo = <<>>, !.closePromise = "rejected"]
    /\ UNCHANGED <<input, result>>
    /\ UNCHANGED NotClient

\* the context after a call of one of the other operations
Called(context, name) == [context EXCEPT !.op = name, !.calls = @ + 1]

CreateProducerCall ==
    /\ client.calls < MaxClientCalls
    /\ \E options \in OptionsArgs :
          LET out == createProducer(client, options)
          IN  /\ client' = Called(out.context, "createProducer")
              /\ result' = out.result
              /\ input' = [op |-> "createProducer", before |-> options,
                           after |-> IF options.passed THEN out.options ELSE options]
    /\ UNCHANGED NotClient

CreateConsumerCall ==
    /\ client.calls < MaxClientCalls
    /\ \E options \in OptionsArgs, consumerGroup, partitionId, eventPosition \in BOOLEAN :
          LET out == createConsumer(client, consumerGroup, partitionId, eventPosition,
                                    options)
          IN  /\ client' = Called(out.context, "createConsumer")
              /\ result' = out.result
              /\ input' = [op |-> "createConsumer", before |-> options,
                           after |-> IF options.passed THEN out.options ELSE options]
    /\ UNCHANGED NotClient

GetPropertiesCall ==
    /\ client.calls < MaxClientCalls
    /\ \E ok \in BOOLEAN :
          LET out == getProperties(client, ok)
          IN  /\ client' = Called(out.context, "getProperties")
              /\ result' = out.result
    /\ input' = [op |-> "getProperties"]
    /\ UNCHANGED NotClient

GetPartitionIdsCall ==
    /\ client.calls < MaxClientCalls
    /\ \E ok \in BOOLEAN :
          LET out == getPartitionIds(client, ok)
          IN  /\ client' = Called(out.context, "getPartitionIds")
              /\ result' = out.result
    /\ input' = [op |-> "getPartitionIds"]
    /\ UNCHANGED NotClient

GetPartitionPropertiesCall ==
    /\ client.calls < MaxClientCalls
    /\ \E ok, partitionId \in BOOLEAN :
          LET out == getPartitionProperties(client, partitionId, ok)
          IN  /\ client' = Called(out.context, "getPartitionProperties")
              /\ result' = out.result
    /\ input' = [op |-> "getPartitionProperties"]
    /\ UNCHANGED NotClient

NextClient ==
    \/ CloseCall
    \/ CloseStepResolves
    \/ CloseStepRejects
    \/ CreateProducerCall
    \/ CreateConsumerCall
    \/ GetPropertiesCall
    \/ GetPartitionIdsCall
    \/ GetPartitionPropertiesCall

SpecClient == InitClient /\ [][NextClient]_vars

----------------------------------------------------------------------------
(* getRetryAttemptTimeoutInMs.  A JavaScript value is a record: kind is    *)
(* "undefined", "string", "NaN", "Infinity", "-Infinity" or "finite", and  *)
(* v is the number of a finite value.                                      *)

defaultOperationTimeoutInMs == 60000

JsValue(kind, v) == [kind |-> kind, v |-> v]
Finite(v) == JsValue("finite", v)

\* typeof x === "number"
IsNumber(x) == x.kind \in {"NaN", "Infinity", "-Infinity", "finite"}

\* isFinite(x) of a number
isFinite(x) == x.kind = "finite"

\* x < d of a number x and a finite d
LessThan(x, d) ==
    CASE x.kind = "finite" -> x.v < d
      [] x.kind = "-Infinity" -> TRUE
      [] OTHER -> FALSE

\* variant: without the test of isFinite
getRetryAttemptTimeoutInMs_NoFiniteTest(retryOptions) ==
    IF \/ ~retryOptions.given
       \/ ~IsNumber(retryOptions.timeoutInMs)
       \/ LessThan(retryOptions.timeoutInMs, defaultOperationTimeoutInMs)
    THEN Finite(defaultOperationTimeoutInMs)
    ELSE retryOptions.timeoutInMs

getRetryAttemptTimeoutInMs(retryOptions) ==
    IF \/ ~retryOptions.given
       \/ ~IsNumber(retryOptions.timeoutInMs)
       \/ ~isFinite(retryOptions.timeoutInMs)
       \/ LessThan(retryOptions.timeoutInMs, defaultOperationTimeoutInMs)
    THEN Finite(defaultOperationTimeoutInMs)
    ELSE retryOptions.timeoutInMs

TimeoutValues ==
    {JsValue(k, 0) : k \in {"undefined", "string", "NaN", "Infinity", "-Infinity"}}
    \cup {Finite(v) : v \in (0 - TimeoutSpan) .. TimeoutSpan}
    \cup {Finite(v) : v \in (defaultOperationTimeoutInMs - TimeoutSpan)
                              .. (defaultOperationTimeoutInMs + TimeoutSpan)}

RetryOptionsArgs ==
    {[given |-> FALSE, timeoutInMs |-> JsValue("undefined", 0)]}
    \cup {[given |-> TRUE, timeoutInMs |-> t] : t \in TimeoutValues}

\* the variables that hold no argument and no result
NotCall ==
    <<ledger, candidates, now, balancer, caller, watched, rounds, called, pending,
      client, credential>>

\* the variables of the balancers, unused
InitOthers ==
    /\ ledger = <<>>
    /\ candidates = <<>>
    /\ balancer = "none"
    /\ caller = NoOwner
    /\ watched = NoWatched
    /\ rounds = 0
    /\ called = {}
    /\ pending = NoPending

InitRetry ==
    /\ input \in {[op |-> "none", retryOptions |-> r] : r \in RetryOptionsArgs}
    /\ result = NoResult
    /\ now = StartTime
    /\ client = NoClient
    /\ credential = NoCredential
    /\ InitOthers

RetryCall ==
    /\ result' = Resolved(getRetryAttemptTimeoutInMs(input.retryOptions))
    /\ input' = [input EXCEPT !.op = "getRetryAttemptTimeoutInMs"]
    /\ UNCHANGED NotCall

NextRetry == RetryCall

SpecRetry == InitRetry /\ [][NextRetry]_vars

----------------------------------------------------------------------------
(* calculateRenewAfterDuration.  Dates are whole milliseconds; the result  *)
(* may be half a millisecond off a whole one, so durations are counted in  *)
(* half milliseconds.                                                      *)

RenewThresholdInMs == 1000
MaxBufferInMs == 10000

\* a whole number of milliseconds as a duration
Ms(n) == 2 * n

\* x / 2 of a duration of whole milliseconds
Halved(x) == x \div 2

MathMin(a, b) == IF a < b THEN a ELSE b

\* variant: the buffer is the larger of the two
calculateRenewAfterDuration_MaxBuffer(dateNow, lockedUntil) ==
    LET remainingTime == Ms(lockedUntil - dateNow)
    IN  IF remainingTime < Ms(RenewThresholdInMs) THEN 0
        ELSE remainingTime - (0 - MathMin(0 - Halved(remainingTime), 0 - Ms(MaxBufferInMs)))

calculateRenewAfterDuration(dateNow, lockedUntil) ==
    LET remainingTime == Ms(lockedUntil - dateNow)
    IN  IF remainingTime < Ms(RenewThresholdInMs) THEN 0
        ELSE remainingTime - MathMin(Halved(remainingTime), Ms(MaxBufferInMs))

InitRenew ==
    /\ now = StartTime
    /\ input \in {[op |-> "none", lockedUntilUtc |-> t] :
                      t \in 0 .. (StartTime + MaxRemainingInMs)}
    /\ result = NoResult
    /\ client = NoClient
    /\ credential = NoCredential
    /\ InitOthers

RenewCall ==
    /\ result' = Resolved(calculateRenewAfterDuration(now, input.lockedUntilUtc))
    /\ input' = [input EXCEPT !.op = "calculateRenewAfterDuration"]
    /\ UNCHANGED NotCall

NextRenew == RenewCall

SpecRenew == InitRenew /\ [][NextRenew]_vars

----------------------------------------------------------------------------
(* EnvironmentCredential.  An environment variable is unset, or set to a   *)
(* string.                                                                 *)

EnvNames ==
    {"AZURE_TENANT_ID", "AZURE_CLIENT_ID", "AZURE_CLIENT_SECRET",
     "AZURE_CLIENT_CERTIFICATE_PATH", "AZURE_USERNAME", "AZURE_PASSWORD"}

EnvValues == {[set |-> FALSE, value |-> ""], [set |-> TRUE, value |-> ""],
              [set |-> TRUE, value |-> "x"]}

\* the truth value of process.env[name]
Truthy(v) == v.set /\ v.value # ""

\* variant: the certificate is tried before the secret
Construct_CertificateFirst(env) ==
    LET tenantId == Truthy(env["AZURE_TENANT_ID"])
        clientId == Truthy(env["AZURE_CLIENT_ID"])
    IN  IF tenantId /\ clientId /\ Truthy(env["AZURE_CLIENT_CERTIFICATE_PATH"])
        THEN "ClientCertificateCredential"
        ELSE IF tenantId /\ clientId /\ Truthy(env["AZURE_CLIENT_SECRET"])
        THEN "ClientSecretCredential"
        ELSE IF tenantId /\ clientId /\ Truthy(env["AZURE_USERNAME"])
                /\ Truthy(env["AZURE_PASSWORD"])
        THEN "UsernamePasswordCredential"
        ELSE "undefined"

\* the field _credential after the constructor
Construct(env) ==
    LET tenantId == Truthy(env["AZURE_TENANT_ID"])
        clientId == Truthy(env["AZURE_CLIENT_ID"])
    IN  IF tenantId /\ clientId /\ Truthy(env["AZURE_CLIENT_SECRET"])
        THEN "ClientSecretCredential"
        ELSE IF tenantId /\ clientId /\ Truthy(env["AZURE_CLIENT_CERTIFICATE_PATH"])
        THEN "ClientCertificateCredential"
        ELSE IF tenantId /\ clientId /\ Truthy(env["AZURE_USERNAME"])
                /\ Truthy(env["AZURE_PASSWORD"])
        THEN "UsernamePasswordCredential"
        ELSE "undefined"

\* what the getToken of the inner credential may do
InnerOutcomes == {"resolves", "rejects", "throws AuthenticationError", "throws"}

\* the credential and the result after getToken; inner is what the inner
\* credential does when it is called
getToken(cred, inner) ==
    LET started == [cred EXCEPT !.spansStarted = @ + 1, !.spanStatus = "unset"]
    IN  IF cred._credential # "undefined"
        THEN LET calledInner == [started EXCEPT !.innerCalls = @ + 1]
             IN  CASE inner = "resolves" ->
                          [credential |-> [calledInner EXCEPT !.spansEnded = @ + 1],
                           result |-> Resolved("AccessToken")]
                   [] inner = "rejects" ->
                          [credential |-> [calledInner EXCEPT !.spansEnded = @ + 1],
                           result |-> [kind |-> "reject", value |-> "Error"]]
                   [] inner = "throws AuthenticationError" ->
                          [credential |-> [calledInner EXCEPT
                                               !.spanStatus = "UNAUTHENTICATED",
                                               !.spansEnded = @ + 1],
                           result |-> ThrownError("AuthenticationError")]
                   [] inner = "throws" ->
                          [credential |-> [calledInner EXCEPT
                                               !.spanStatus = "UNKNOWN",
                                               !.spansEnded = @ + 1],
                           result |-> ThrownError("Error")]
        ELSE [credential |-> [started EXCEPT !.spanStatus = "UNAUTHENTICATED",
                                              !.spansEnded = @ + 1],
              result |-> Resolved("null")]

InitEnv ==
    /\ input \in {[op |-> "none", env |-> e] : e \in [EnvNames -> EnvValues]}
    /\ credential = NoCredential
    /\ result = NoResult
    /\ now = StartTime
    /\ client = NoClient
    /\ InitOthers

NotCredential ==
    <<ledger, candidates, now, balancer, caller, watched, rounds, called, pending,
      client>>

ConstructorCall ==
    /\ credential = NoCredential
    /\ credential' = [kind |-> "EnvironmentCredential",
                      _credential |-> Construct(input.env),
                      innerCalls |-> 0,
                      spansStarted |-> 0,
                      spansEnded |-> 0,
                      spanStatus |-> "unset"]
    /\ input' = [input EXCEPT !.op = "constructor"]
    /\ UNCHANGED result
    /\ UNCHANGED NotCredential

GetTokenCall ==
    /\ credential # NoCredential
    /\ credential.spansStarted < MaxTokenCalls
    /\ \E inner \in InnerOutcomes :
          LET out == getToken(credential, inner)
          IN  /\ credential' = out.credential
              /\ result' = out.result
    /\ input' = [input EXCEPT !.op = "getToken"]
    /\ UNCHANGED NotCredential

NextEnv ==
    \/ ConstructorCall
    \/ GetTokenCall

SpecEnv == InitEnv /\ [][NextEnv]_vars

----------------------------------------------------------------------------
(* Vocabulary of the properties *)

ActiveIndices(map) ==
    {i \in DOMAIN map : IsActive(map[i], now, InactiveTimeLimitInMS)}

ActiveOwnerIds(map) == {map[i].ownerId : i \in ActiveIndices(map)}

ActiveCount(map, owner) ==
    Cardinality({i \in ActiveIndices(map) : map[i].ownerId = owner})

\* the outcomes of a call of the balancer of self on the current inputs
Outcomes(self) ==
    FairLoadBalance(self, InactiveTimeLimitInMS, ledger, candidates, now)

\* the balanced state as seen by self: P candidates, C owners counting self
BalancedFor(self) ==
    LET owners == ActiveOwnerIds(ledger) \cup {self}
        P == Len(candidates)
        C == Cardinality(owners)
    IN  /\ \A o \in owners :
              /\ ActiveCount(ledger, o) >= P \div C
              /\ ActiveCount(ledger, o) <= (P \div C) + 1
        /\ Cardinality({o \in owners : ActiveCount(ledger, o) = (P \div C) + 1}) = P % C

FairReturned == balancer = "Fair" /\ result.kind = "return"

----------------------------------------------------------------------------
\* C1: FairPartitionLoadBalancer.loadBalance returns a list of length 0 or 1
\* for every ledger, candidate list and caller, the bootstrap path included.
C1_AtMostOnePartition ==
    (balancer = "Fair" /\ result.kind # "none") =>
        /\ result.kind = "return"
        /\ Len(result.value) <= 1

\* a claim of one out of two unclaimed candidates beside an active record
C1_Witness ==
    /\ FairReturned
    /\ Len(result.value) = 1
    /\ ActiveIndices(ledger) # {}
    /\ Len(UnOwnedPartitionIds(
           removeInactivePartitionOwnerships(ledger, now, InactiveTimeLimitInMS).result,
           candidates)) >= 2

\* C2: whenever the assignment is balanced for the caller (every owner holds
\* floor(P/C) or floor(P/C)+1 and exactly P mod C owners hold floor(P/C)+1),
\* loadBalance returns the empty list, whichever instance calls.
C2_BalancedReturnsEmpty ==
    (FairReturned /\ BalancedFor(caller)) => result.value = <<>>

\* C4: a ledger entry whose age has reached inactiveTimeLimitInMS is treated as
\* an absent entry: the outcomes of loadBalance are the same with the entry and
\* with the entry removed, whatever owner it stores.
WithoutEntry(map, i) == [k \in 1 .. (Len(map) - 1) |-> IF k < i THEN map[k] ELSE map[k + 1]]

IsStale(po) == now - po.lastModifiedTimeInMS >= InactiveTimeLimitInMS

C4_StaleIsAbsent ==
    FairReturned =>
        \A i \in DOMAIN ledger :
            IsStale(ledger[i]) =>
                Outcomes(caller) =
                    FairLoadBalance(caller, InactiveTimeLimitInMS,
                                    WithoutEntry(ledger, i), candidates, now)

\* the partition of a stale record of another owner is returned as unclaimed
C4_Witness ==
    /\ FairReturned
    /\ ActiveIndices(ledger) # {}
    /\ \E i \in DOMAIN ledger :
          /\ IsStale(ledger[i])
          /\ ledger[i].ownerId \in Owners \ {caller}
          /\ result.value = <<ledger[i].partitionId>>

\* C3: from the empty ledger, with the processors calling loadBalance
\* repeatedly and persisting each claim at once, after at most P rounds the
\* assignment is balanced and every further call returns the empty list.
C3_ConvergesWithinPRounds ==
    rounds >= Len(candidates) =>
        \A self \in ConvergeOwners :
            BalancedFor(self) /\ Outcomes(self) = {Returned(<<>>)}

\* the state no call leaves although it is not balanced
StuckUnbalanced ==
    /\ \A self \in ConvergeOwners : Outcomes(self) = {Returned(<<>>)}
    /\ \E self \in ConvergeOwners : ~BalancedFor(self)

\* C5: an instance that actively holds minPerOwner + 1 partitions or more
\* returns the empty list whenever the assignment is balanced and whenever
\* another owner holds fewer than minPerOwner.
MinPerOwnerFor(self) ==
    Len(candidates) \div Cardinality(ActiveOwnerIds(ledger) \cup {self})

OtherBelowMin(self) ==
    \E o \in ActiveOwnerIds(ledger) \ {self} :
        ActiveCount(ledger, o) < MinPerOwnerFor(self)

C5_NoOverClaiming ==
    \A self \in Owners :
        (/\ ActiveCount(ledger, self) >= MinPerOwnerFor(self) + 1
         /\ BalancedFor(self) \/ OtherBelowMin(self))
            => Outcomes(self) = {Returned(<<>>)}

\* a call of an instance above its share while another owner is below it
C5_Witness ==
    /\ FairReturned
    /\ result.value = <<>>
    /\ ActiveCount(ledger, caller) >= MinPerOwnerFor(caller) + 1
    /\ OtherBelowMin(caller)

\* the owner map that the balancer of self builds from the current ledger
OwnerMapOf(self) ==
    BuildOwnerPartitionMap(
        removeInactivePartitionOwnerships(ledger, now, InactiveTimeLimitInMS).result,
        self)

OwnerIdsSeenBy(self) == {OwnerMapOf(self)[i].ownerId : i \in DOMAIN OwnerMapOf(self)}

\* C6 as stated: an instance without partitions that has made a call is one
\* of the C owners in the calls of the other instances.
C6_SelfRegistrationSeenByOthers ==
    (FairReturned /\ ActiveCount(ledger, caller) = 0) =>
        \A other \in Owners \ {caller} : caller \in OwnerIdsSeenBy(other)

\* C6 amended: an instance counts itself in its own calls only; the owners
\* another instance counts are the owner ids with an active ledger record plus
\* that instance itself, so an instance without an active record is not counted
\* by the others even after it has called, and minPerOwner and extra are
\* computed from that number.
C6_SelfRegistrationIsLocal ==
    /\ \A self \in Owners :
          /\ OwnerIdsSeenBy(self) = ActiveOwnerIds(ledger) \cup {self}
          /\ Len(OwnerMapOf(self)) = Cardinality(ActiveOwnerIds(ledger) \cup {self})
          /\ MinPartitionsPerEventProcessor(candidates, OwnerMapOf(self)) = MinPerOwnerFor(self)
          /\ NumberWithAdditionalPartition(candidates, OwnerMapOf(self))
                = Len(candidates) % Cardinality(ActiveOwnerIds(ledger) \cup {self})
    /\ (FairReturned /\ ActiveCount(ledger, caller) = 0) =>
          \A other \in Owners \ {caller} : caller \notin OwnerIdsSeenBy(other)

\* an instance has called beside an owner and holds nothing afterwards
C6_Witness ==
    /\ FairReturned
    /\ ActiveCount(ledger, caller) = 0
    /\ ActiveOwnerIds(ledger) # {}

\* C7: GreedyPartitionLoadBalancer.loadBalance returns the candidates that
\* are watched (all when no watched set was given) and are not keys of the
\* ledger, in candidate order and without a limit; the empty list for an empty
\* watched set and for a ledger that holds every candidate.
Eligible(id) ==
    /\ watched.given => id \in watched.ids
    /\ id \notin MapKeys(ledger)

RECURSIVE KeepEligible(_)
KeepEligible(list) ==
    IF list = <<>> THEN <<>>
    ELSE IF Eligible(Head(list))
         THEN <<Head(list)>> \o KeepEligible(Tail(list))
         ELSE KeepEligible(Tail(list))

GreedyReturned == balancer = "Greedy" /\ result.kind = "return"

C7_GreedyResult ==
    GreedyReturned =>
        /\ result.value = KeepEligible(candidates)
        /\ (watched.given /\ watched.ids = {}) => result.value = <<>>
        /\ (\A i \in DOMAIN candidates : candidates[i] \in MapKeys(ledger))
              => result.value = <<>>

\* two partitions returned in candidate order and one candidate left out
C7_Witness ==
    /\ GreedyReturned
    /\ watched.given
    /\ Len(result.value) = 2
    /\ result.value[1] > result.value[2]
    /\ Len(candidates) = 3

\* C8: with zero candidate partitions loadBalance returns the empty list,
\* for both balancers and for every ledger.
C8_ZeroCandidatesEmpty ==
    (result.kind # "none" /\ candidates = <<>>) => result = Returned(<<>>)

\* C9: FairPartitionLoadBalancer.loadBalance never throws: every outcome is a
\* returned list, the divisor C is at least 1, and the steal step is reached
\* only when the owner with the maximum count holds a partition.
StealReached(self) ==
    LET active == removeInactivePartitionOwnerships(ledger, now, InactiveTimeLimitInMS).result
        minPer == MinPartitionsPerEventProcessor(candidates, OwnerMapOf(self))
        extra == NumberWithAdditionalPartition(candidates, OwnerMapOf(self))
    IN  /\ Len(active) # 0
        /\ ~isLoadBalanced(minPer, extra, OwnerMapOf(self))
        /\ shouldOwnMorePartitions(self, minPer, candidates, OwnerMapOf(self))
        /\ Len(UnOwnedPartitionIds(active, candidates)) = 0

C9_NeverThrows ==
    (balancer = "Fair" /\ result.kind # "none") =>
        /\ result.kind = "return"
        /\ Len(OwnerMapOf(caller)) >= 1
        /\ StealReached(caller) =>
              \E i \in DOMAIN OwnerMapOf(caller) : Len(OwnerMapOf(caller)[i].list) >= 1

\* a call that went through the steal step
C9_Witness ==
    /\ FairReturned
    /\ StealReached(caller)
    /\ Len(result.value) = 1

\* C10: loadBalance of both balancers leaves the ledger map and the candidate
\* list as they were, whichever path the call takes.
C10_InputsUnchanged ==
    [][ledger' = ledger /\ candidates' = candidates]_vars

\* a Fair call that has pruned an inactive record and returned a claim
C10_Witness ==
    /\ FairReturned
    /\ Len(result.value) = 1
    /\ ActiveIndices(ledger) # {}
    /\ ActiveIndices(ledger) # DOMAIN ledger

\* C11: the balancers keep nothing between calls: a call leaves the fields of
\* the instance as they were, its result is one of the outcomes that the
\* inputs and the constructor arguments determine, and the same call made
\* again has the same outcomes; Greedy has one single outcome.
C11_Stateless ==
    [][/\ watched' = watched
       /\ balancer = "Fair" =>
             /\ result' \in FairLoadBalance(caller', InactiveTimeLimitInMS,
                                             ledger, candidates, now)
             /\ FairLoadBalance(caller', InactiveTimeLimitInMS, ledger', candidates', now')
                   = FairLoadBalance(caller', InactiveTimeLimitInMS, ledger, candidates, now)
       /\ balancer = "Greedy" =>
             /\ result' = GreedyLoadBalance(watched, ledger, candidates).result
             /\ GreedyLoadBalance(watched', ledger', candidates').result = result'
      ]_vars

\* a Greedy instance with a watched set has handed out a partition
C11_Witness ==
    /\ GreedyReturned
    /\ watched.given
    /\ result.value # <<>>

\* C12: a partition whose record is renewed before its age reaches
\* inactiveTimeLimitInMS is never an unclaimed partition for another instance,
\* which obtains it through the steal step only; once the age of the record
\* has reached the limit the partition is unclaimed for the other instances,
\* and an instance that claims may return it.
ActiveView == removeInactivePartitionOwnerships(ledger, now, InactiveTimeLimitInMS).result

UnclaimedIds ==
    LET unOwned == UnOwnedPartitionIds(ActiveView, candidates)
    IN  {unOwned[k] : k \in DOMAIN unOwned}

C12_HeartbeatOrdering ==
    \A i \in DOMAIN ledger : \A self \in Owners \ {ledger[i].ownerId} :
        LET id == ledger[i].partitionId
        IN  /\ ~IsStale(ledger[i]) =>
                  /\ id \notin UnclaimedIds
                  /\ Returned(<<id>>) \in Outcomes(self) => StealReached(self)
            /\ IsStale(ledger[i]) =>
                  /\ id \in UnclaimedIds
                  /\ Outcomes(self) # {Returned(<<>>)} =>
                        Returned(<<id>>) \in Outcomes(self)

\* an owner has let one record age out while keeping another alive, and
\* another instance may return the aged partition as an unclaimed one
C12_Witness ==
    /\ FairReturned
    /\ \E i, j \in DOMAIN ledger : \E self \in Owners \ {ledger[i].ownerId} :
          /\ ledger[i].ownerId = ledger[j].ownerId
          /\ IsStale(ledger[i])
          /\ ~IsStale(ledger[j])
          /\ Returned(<<ledger[i].partitionId>>) \in Outcomes(self)
          /\ ~StealReached(self)

\* C13: two instances that read the same ledger snapshot may both return the
\* same partition; with the optimistic-concurrency write of the store at most
\* one of two claims made on the same version of a record is persisted, the
\* other is discarded, and the ledger never holds two records of a partition.
SameClaim(a, b) ==
    /\ a # b
    /\ pending[a].phase # "idle"
    /\ pending[b].phase # "idle"
    /\ pending[a].partitionId = pending[b].partitionId
    /\ pending[a].seen = pending[b].seen

C13_OneClaimPersisted ==
    /\ \A a, b \in Owners :
          SameClaim(a, b) =>
              ~(pending[a].phase = "persisted" /\ pending[b].phase = "persisted")
    /\ \A a \in Owners :
          pending[a].phase \in {"persisted", "discarded"} =>
              StoredETag(ledger, pending[a].partitionId) > pending[a].seen
    /\ \A i, j \in DOMAIN ledger :
          i # j => ledger[i].partitionId # ledger[j].partitionId

\* two instances returned the same partition from the same snapshot; the
\* claim of one is persisted and the claim of the other discarded
C13_Witness ==
    \E a, b \in Owners :
        /\ SameClaim(a, b)
        /\ pending[a].phase = "persisted"
        /\ pending[b].phase = "discarded"
        /\ \E i \in DOMAIN ledger :
              /\ ledger[i].partitionId = pending[a].partitionId
              /\ ledger[i].ownerId = a

\* C14: the active view holds a ledger entry exactly when now minus its
\* lastModifiedTime is below inactiveTimeLimitInMS and its ownerId is not
\* empty, for every timestamp, 0 included.
AgeBelowLimit(po) ==
    /\ po.lastModifiedTimeInMS # Undefined
    /\ now - po.lastModifiedTimeInMS < InactiveTimeLimitInMS

InActiveView(po) == \E k \in DOMAIN ActiveView : ActiveView[k] = po

C14_ActiveIffFresh ==
    FairReturned =>
        \A i \in DOMAIN ledger :
            InActiveView(ledger[i]) <=>
                (AgeBelowLimit(ledger[i]) /\ ledger[i].ownerId # NoOwner)

\* C15: a ledger record without lastModifiedTime or without ownerId raises no
\* error and is inactive: the call has the outcomes it has without the
\* record, so the record adds nothing to a count or to C, and its partition is
\* one of the unclaimed candidates.
Malformed(po) == po.lastModifiedTimeInMS = Undefined \/ po.ownerId = NoOwner

C15_MalformedIsInactive ==
    (balancer = "Fair" /\ result.kind # "none") =>
        /\ result.kind = "return"
        /\ \A i \in DOMAIN ledger :
              Malformed(ledger[i]) =>
                  /\ ~InActiveView(ledger[i])
                  /\ Outcomes(caller) =
                        FairLoadBalance(caller, InactiveTimeLimitInMS,
                                        WithoutEntry(ledger, i), candidates, now)
                  /\ OwnerMapOf(caller) =
                        BuildOwnerPartitionMap(
                            removeInactivePartitionOwnerships(
                                WithoutEntry(ledger, i), now, InactiveTimeLimitInMS).result,
                            caller)
                  /\ ledger[i].partitionId \in UnclaimedIds

\* beside an active record, the partition of a record that names an owner
\* but has no lastModifiedTime is returned as an unclaimed one
C15_Witness ==
    /\ FairReturned
    /\ ActiveIndices(ledger) # {}
    /\ \E i \in DOMAIN ledger :
          /\ ledger[i].lastModifiedTimeInMS = Undefined
          /\ ledger[i].ownerId \in Owners \ {caller}
          /\ result.value = <<ledger[i].partitionId>>

\* C16: when the active view is empty and the candidate list is not, the call
\* returns one partition, a member of the candidate list, and every candidate
\* is a possible result.
CandidateIds == {candidates[k] : k \in DOMAIN candidates}

C16_Bootstrap ==
    (FairReturned /\ ActiveView = <<>> /\ candidates # <<>>) =>
        /\ Len(result.value) = 1
        /\ result.value[1] \in CandidateIds
        /\ Outcomes(caller) = {Returned(<<id>>) : id \in CandidateIds}

\* all records of the ledger are inactive and the last of several candidates
\* is returned
C16_Witness ==
    /\ FairReturned
    /\ ledger # <<>>
    /\ ActiveView = <<>>
    /\ Len(candidates) >= 2
    /\ result.value = <<candidates[Len(candidates)]>>

\* C17: past the bootstrap, C is the number of distinct owner ids of the
\* active view plus one when the caller is not among them, P is the length
\* of the candidate list, minPerOwner is floor(P / C) and extra is P mod C:
\* C >= 1 and C * minPerOwner + extra = P.
C17_BalanceTargets ==
    (FairReturned /\ ActiveView # <<>>) =>
        LET C == Cardinality(ActiveOwnerIds(ledger))
                    + (IF caller \in ActiveOwnerIds(ledger) THEN 0 ELSE 1)
            P == Len(candidates)
            minPerOwner == MinPartitionsPerEventProcessor(candidates, OwnerMapOf(caller))
            extra == NumberWithAdditionalPartition(candidates, OwnerMapOf(caller))
        IN  /\ Len(OwnerMapOf(caller)) = C
            /\ C >= 1
            /\ minPerOwner * C <= P
            /\ P < (minPerOwner + 1) * C
            /\ extra >= 0
            /\ extra < C
            /\ C * minPerOwner + extra = P

\* a caller without an active record beside another owner, with a remainder
C17_Witness ==
    /\ FairReturned
    /\ ActiveView # <<>>
    /\ caller \notin ActiveOwnerIds(ledger)
    /\ MinPartitionsPerEventProcessor(candidates, OwnerMapOf(caller)) >= 1
    /\ NumberWithAdditionalPartition(candidates, OwnerMapOf(caller)) >= 1

\* C18: when the active view is not empty and the assignment is not balanced,
\* the call returns a non-empty list exactly when the caller's active count is
\* below minPerOwner, or equals minPerOwner while the active counts of all
\* owners sum to less than P; otherwise it returns the empty list.
ShouldGrow(self) ==
    \/ ActiveCount(ledger, self) < MinPerOwnerFor(self)
    \/ /\ ActiveCount(ledger, self) = MinPerOwnerFor(self)
       /\ Cardinality(ActiveIndices(ledger)) < Len(candidates)

OwnedByAnother(id, self) ==
    \E i \in ActiveIndices(ledger) :
        ledger[i].partitionId = id /\ ledger[i].ownerId # self

C19_ClaimBeforeSteal ==
    (FairReturned /\ Len(result.value) = 1) =>
        /\ UnclaimedIds # {} =>
              /\ result.value[1] \in UnclaimedIds
              /\ Outcomes(caller) = {Returned(<<id>>) : id \in UnclaimedIds}
        /\ OwnedByAnother(result.value[1], caller) => UnclaimedIds = {}

\* past the bootstrap, the second of the unclaimed candidates is returned
\* while another owner holds a partition
C19_Witness ==
    /\ FairReturned
    /\ Len(result.value) = 1
    /\ ActiveOwnerIds(ledger) \ {caller} # {}
    /\ Cardinality(UnclaimedIds) >= 2
    /\ result.value[1] = UnOwnedPartitionIds(ActiveView, candidates)[2]

\* C20: a stolen partition is actively owned by an owner whose active count
\* is the maximum over all owners; of several owners with that count it is
\* the one whose first record comes first in the iteration of the ledger.
FirstRecord(owner) ==
    CHOOSE i \in ActiveIndices(ledger) :
        /\ ledger[i].ownerId = owner
        /\ \A j \in ActiveIndices(ledger) : ledger[j].ownerId = owner => i <= j

OwnerOfStolen ==
    ledger[CHOOSE i \in ActiveIndices(ledger) :
               ledger[i].partitionId = result.value[1]].ownerId

C20_StealTarget ==
    (FairReturned /\ StealReached(caller)) =>
        /\ Len(result.value) = 1
        /\ \E i \in ActiveIndices(ledger) : ledger[i].partitionId = result.value[1]
        /\ \A o \in ActiveOwnerIds(ledger) :
              /\ ActiveCount(ledger, o) <= ActiveCount(ledger, OwnerOfStolen)
              /\ (o # OwnerOfStolen
                    /\ ActiveCount(ledger, o) = ActiveCount(ledger, OwnerOfStolen))
                     => FirstRecord(OwnerOfStolen) < FirstRecord(o)

\* two owners hold the maximum and the partition is stolen from owner 2,
\* whose record comes first
C20_Witness ==
    /\ FairReturned
    /\ StealReached(caller)
    /\ Len(result.value) = 1
    /\ OwnerOfStolen = 2
    /\ ActiveCount(ledger, 1) = ActiveCount(ledger, 2)

\* C21: in every ledger that the processors reach from the empty ledger, with
\* every claim persisted at once and no record ageing, an assignment that is
\* not balanced lets at least one processor return a non-empty list.
C21_NoStuckUnbalanced ==
    (\E self \in ConvergeOwners : ~BalancedFor(self)) =>
        \E self \in ConvergeOwners : Outcomes(self) # {Returned(<<>>)}

\* C22 as stated: every candidate is eventually actively owned by a
\* survivor, and while some candidate has no active owner the call of at
\* least one survivor returns an unclaimed candidate.
OwnedBySurvivors ==
    \A id \in CandidateIds :
        \E i \in ActiveIndices(ledger) :
            ledger[i].partitionId = id /\ ledger[i].ownerId \in Survivors

SomeSurvivorClaims ==
    \E self \in Survivors :
        \E id \in UnclaimedIds : Returned(<<id>>) \in Outcomes(self)

C23_ReturnsCandidates ==
    (FairReturned /\ candidates # <<>>) =>
        \A k \in DOMAIN result.value : result.value[k] \in CandidateIds

\* C24: loadBalance never returns a partition that the calling instance
\* already actively owns: an unclaimed candidate has no active owner, and
\* with a candidate list without duplicates the steal step never chooses
\* the list of the caller.
ActivelyOwnedBy(id, self) ==
    \E i \in ActiveIndices(ledger) :
        ledger[i].partitionId = id /\ ledger[i].ownerId = self

C24_NeverOwnPartition ==
    \A self \in Owners : \A out \in Outcomes(self) :
        /\ out.kind = "return"
        /\ \A k \in DOMAIN out.value : ~ActivelyOwnedBy(out.value[k], self)
        /\ \A id \in UnclaimedIds : \A o \in Owners : ~ActivelyOwnedBy(id, o)

\* a processor that holds a partition is about to steal another one
C24_Witness ==
    /\ FairReturned
    /\ \E self \in Owners :
          /\ ActiveCount(ledger, self) >= 1
          /\ StealReached(self)
          /\ \E out \in Outcomes(self) : Len(out.value) = 1

\* C25: a Greedy call never returns a candidate that is a key of the ledger,
\* whoever owns the record and however old it is; no record is overwritten
\* or deleted, so a partition that has a record is never returned again.
C25_GreedyNeverReclaims ==
    [][/\ \A i \in DOMAIN ledger : i \in DOMAIN ledger' /\ ledger'[i] = ledger[i]
       /\ now' = now =>
             /\ result'.kind = "return"
             /\ \A k \in DOMAIN result'.value :
                   result'.value[k] \notin MapKeys(ledger)
      ]_vars

\* a call returns nothing although the caller watches a partition whose
\* record, of another owner, has aged out, beside a record of its own
C25_Witness ==
    /\ GreedyReturned
    /\ result.value = <<>>
    /\ \E i, j \in DOMAIN ledger :
          /\ ledger[i].ownerId # caller
          /\ IsStale(ledger[i])
          /\ watched.given => ledger[i].partitionId \in watched.ids
          /\ ledger[j].ownerId = caller
          /\ IsStale(ledger[j])

Rank(kind) ==
    CASE kind = "sender" -> 1
      [] kind = "receiver" -> 2
      [] kind = "cbsSession" -> 3
      [] kind = "managementSession" -> 4
      [] kind = "connection" -> 5

\* everything close() has to close
Targets ==
    {Step("sender", i) : i \in DOMAIN client.senders}
    \cup {Step("receiver", i) : i \in DOMAIN client.receivers}
    \cup {Step("cbsSession", 1), Step("managementSession", 1), Step("connection", 1)}

\* the links and the flag of the context
Links_(context) ==
    <<context.senders, context.receivers, context.cbsOpen, context.managementOpen,
      context.connectionOpen, context.wasConnectionCloseCalled>>

\* C26: close() on an open connection closes every sender, then every
\* receiver, then the cbs session, then the management session, then the
\* connection; wasConnectionCloseCalled becomes true only when the close of
\* the connection has succeeded; on a connection that is not open nothing is
\* closed and the flag stays; when a step fails the error is rethrown, no
\* later step runs and the flag is not set.
C26_CloseOrder ==
    [][/\ \A j \in DOMAIN client'.closeLog :
             \A t \in Targets :
                 Rank(t.kind) < Rank(client'.closeLog[j].kind) =>
                     \E i \in 1 .. (j - 1) : client'.closeLog[i] = t
       /\ client'.closeLog # client.closeLog => client.connectionOpen
       /\ client'.wasConnectionCloseCalled # client.wasConnectionCloseCalled =>
             /\ client'.wasConnectionCloseCalled
             /\ client.connectionOpen /\ ~client'.connectionOpen
             /\ \A t \in Targets : \E i \in DOMAIN client'.closeLog :
                                       client'.closeLog[i] = t
             /\ client'.closeLog[Len(client'.closeLog)] = Step("connection", 1)
             /\ client'.closePromise = "resolved"
       /\ (client'.closeCalls # client.closeCalls /\ ~client.connectionOpen) =>
             /\ Links_(client') = Links_(client)
             /\ client'.todo = <<>>
             /\ client'.closePromise = "resolved"
       /\ (client.closePromise = "pending" /\ client'.closePromise = "rejected") =>
             /\ Links_(client') = Links_(client)
             /\ ~client'.wasConnectionCloseCalled
             /\ client'.todo = <<>>
             /\ client'.closeLog = client.closeLog
             /\ Len(client.closeLog) < Cardinality(Targets)
      ]_vars

\* a close() that went through a sender, a receiver, the sessions and the
\* connection
C26_Witness ==
    /\ client.op = "close"
    /\ client.closeCalls >= 1
    /\ client.wasConnectionCloseCalled
    /\ Len(client.senders) >= 1
    /\ Len(client.receivers) >= 1
    /\ Len(client.closeLog) = Cardinality(Targets)
    /\ client.closePromise = "resolved"

ClientOperations ==
    {"createProducer", "createConsumer", "getProperties", "getPartitionIds",
     "getPartitionProperties"}

\* the call of this step fails with Error and creates nothing
FailsClosed ==
    /\ result' = ThrownError("Error")
    /\ client'.producers = client.producers
    /\ client'.consumers = client.consumers
    /\ client'.requests = client.requests
    /\ client'.spansStarted = client.spansStarted

C28_RetryTimeout ==
    input.op = "getRetryAttemptTimeoutInMs" =>
        LET timeoutInMs == input.retryOptions.timeoutInMs
            usable == /\ input.retryOptions.given
                      /\ timeoutInMs.kind = "finite"
                      /\ timeoutInMs.v >= defaultOperationTimeoutInMs
        IN  /\ result.kind = "return"
            /\ result.value.kind = "finite"
            /\ result.value.v >= defaultOperationTimeoutInMs
            /\ usable => result.value = timeoutInMs
            /\ ~usable => result.value.v = defaultOperationTimeoutInMs

\* a timeout above the default is returned as it is
C28_Witness ==
    /\ input.op = "getRetryAttemptTimeoutInMs"
    /\ input.retryOptions.given
    /\ result.value = input.retryOptions.timeoutInMs
    /\ result.value.v > defaultOperationTimeoutInMs

\* C29: calculateRenewAfterDuration returns 0 when less than 1000 ms remain;
\* otherwise remaining - min(remaining / 2, 10000), which is at least half
\* of the remaining time and less than the remaining time.
C29_RenewAfter ==
    input.op = "calculateRenewAfterDuration" =>
        LET remaining == input.lockedUntilUtc - now
            twice == result.value
        IN  /\ result.kind = "return"
            /\ remaining < RenewThresholdInMs => twice = 0
            /\ remaining >= RenewThresholdInMs =>
                  /\ twice = IF remaining <= 2 * MaxBufferInMs
                              THEN remaining
                              ELSE 2 * (remaining - MaxBufferInMs)
                  /\ twice >= remaining
                  /\ twice < 2 * remaining

\* more than twenty seconds remain: the renewal is ten seconds before the end
C29_Witness ==
    /\ input.op = "calculateRenewAfterDuration"
    /\ input.lockedUntilUtc - now > 2 * MaxBufferInMs
    /\ result.value = Ms(input.lockedUntilUtc - now - MaxBufferInMs)

\* the variable is set to a string that is not empty
IsSet(name) == input.env[name].set /\ input.env[name].value # ""

\* the inner credential the precedence of the claim selects
Selected ==
    IF IsSet("AZURE_TENANT_ID") /\ IsSet("AZURE_CLIENT_ID")
    THEN IF IsSet("AZURE_CLIENT_SECRET") THEN {"ClientSecretCredential"}
         ELSE IF IsSet("AZURE_CLIENT_CERTIFICATE_PATH")
         THEN {"ClientCertificateCredential"}
         ELSE IF IsSet("AZURE_USERNAME") /\ IsSet("AZURE_PASSWORD")
         THEN {"UsernamePasswordCredential"}
         ELSE {}
    ELSE {}

====
